---- MODULE Spec2Model ----
(***************************************************************************)
(* A model of the random-walk Metropolis sampler of src/Metropolis.py.     *)
(*                                                                         *)
(* The object's fields (logTarget, currentState, stepSize, samples,        *)
(* acceptanceRate) are variables, and so are the locals of the running     *)
(* adapt / sample call.  Every pass of a loop body is one step, so that    *)
(* the states between two accept/reject iterations are visible.            *)
(*                                                                         *)
(* Floating point values are kept by kind: a log-density is finite (an     *)
(* integer here), -inf, +inf or nan; stepSize, which only ever moves by    *)
(* factors of two from 1.0, is a power of two 2^e within the range of an   *)
(* IEEE double, or 0, or inf.                                              *)
(***************************************************************************)
EXTENDS Integers, Sequences, FiniteSets, TLC

\* ------------------------------------------------------------- bounds

\* States are the points 0..MaxState of the sampled space.
MaxState == 1
\* A uniform draw is 0.0 or one of e^-1 .. e^-MaxU.
MaxU == 1
\* Accept/reject iterations over the lifetime of one sampler.
MaxIters == 3
\* Blocks in one blockLengths argument.
MaxBlocks == 2
\* |log2(stepSize)| reached by the calls made.
MaxStepExp == 2
\* The nSamples of one sample call.
MaxSample == 2
\* Accept/reject iterations of a sampler that is only tuned.
MaxTuneIters == 11

\* -------------------------------------------------- program constants

\* An IEEE double: the least positive value is 2^-DblMinExp, the greatest
\* power of two is 2^DblMaxExp.
DblMinExp == 1074
DblMaxExp == 1023

States == 0..MaxState
UniformDraws == 0..MaxU
BlockLens == {0, 1, 2}
\* The block lengths of the tuning runs: 10 makes the rates 0.1 and 0.6 occur.
TuneLens == {1, 10}

\* ------------------------------------------------- floating point values

Fin(v) == [k |-> "fin", v |-> v]
NegInf == [k |-> "ninf", v |-> 0]
PosInf == [k |-> "pinf", v |-> 0]
NaN == [k |-> "nan", v |-> 0]
\* Not a value: the evaluation of the log-target raises.
Raises == [k |-> "raise", v |-> 0]

\* FSub with inf - inf of the same sign taken as 0 instead of nan.
FSub_InfMinusInfIsZero(a, b) ==
    IF a.k = "nan" \/ b.k = "nan" THEN NaN
    ELSE IF a.k = "fin" /\ b.k = "fin" THEN Fin(a.v - b.v)
    ELSE IF a.k = b.k THEN Fin(0)
    ELSE IF a.k = "ninf" \/ b.k = "pinf" THEN NegInf
    ELSE PosInf

\* a - b on doubles.
FSub(a, b) ==
    IF a.k = "nan" \/ b.k = "nan" THEN NaN
    ELSE IF a.k = "fin" /\ b.k = "fin" THEN Fin(a.v - b.v)
    ELSE IF a.k = b.k THEN NaN
    ELSE IF a.k = "ninf" \/ b.k = "pinf" THEN NegInf
    ELSE PosInf

\* FLess with <= for <.
FLess_OrEqual(a, b) ==
    IF a.k = "nan" \/ b.k = "nan" THEN FALSE
    ELSE IF a.k = "fin" /\ b.k = "fin" THEN a.v <= b.v
    ELSE IF a.k = b.k THEN TRUE
    ELSE a.k = "ninf" \/ b.k = "pinf"

\* a < b on doubles: every comparison with nan is false.
FLess(a, b) ==
    IF a.k = "nan" \/ b.k = "nan" THEN FALSE
    ELSE IF a.k = "fin" /\ b.k = "fin" THEN a.v < b.v
    ELSE IF a.k = b.k THEN FALSE
    ELSE a.k = "ninf" \/ b.k = "pinf"

\* NpLog with log(0.0) taken as nan.
NpLog_ZeroIsNaN(d) == IF d = 0 THEN NaN ELSE Fin(-d)

\* np.log of a uniform draw in [0, 1): log(0.0) is -inf, log(e^-d) is -d.
NpLog(d) == IF d = 0 THEN NegInf ELSE Fin(-d)

\* ------------------------------------------------------------ stepSize

Pow2(e) == [k |-> "pos", e |-> e]
StepZero == [k |-> "zero", e |-> 0]
StepInf == [k |-> "inf", e |-> 0]

\* stepSize /= 2: exact down to the least double, then 0.0.
Halve(s) ==
    IF s.k \in {"pos", "neg"}
    THEN IF s.e > -DblMinExp THEN [s EXCEPT !.e = s.e - 1] ELSE StepZero
    ELSE s

\* stepSize *= 2: exact up to the greatest power of two, then inf.
Double(s) ==
    IF s.k \in {"pos", "neg"}
    THEN IF s.e < DblMaxExp THEN [s EXCEPT !.e = s.e + 1]
         ELSE [k |-> IF s.k = "pos" THEN "inf" ELSE "ninf", e |-> 0]
    ELSE s

\* np.random.normal(loc, scale) refuses a negative scale.
NormalRaises(scale) == scale.k \in {"neg", "ninf"}

\* The values np.random.normal(loc, scale) can return: any point for a
\* positive scale (an infinite one gives the far points), loc itself for 0.
NormalDraws(loc, scale) ==
    IF scale.k = "zero" THEN {loc}
    ELSE IF scale.k \in {"pos", "inf"} THEN States
    ELSE {}

\* ------------------------------------------------------ acceptance rate

RECURSIVE GCD(_, _)
GCD(a, b) == IF b = 0 THEN a ELSE GCD(b, a % b)

Abs(x) == IF x < 0 THEN -x ELSE x

None == [none |-> TRUE, num |-> 0, den |-> 1]
\* The number num/den in lowest terms, den > 0 (0/-1 = -0.0 equals 0).
Rat(a, b) ==
    LET g == GCD(Abs(a), Abs(b))
        s == IF b < 0 THEN -1 ELSE 1
    IN [none |-> FALSE, num |-> (s * a) \div g, den |-> Abs(b) \div g]

\* BelowLow with <= for <.
BelowLow_Inclusive(r) == 10 * r.num <= r.den

\* acceptanceRate < 0.1 and acceptanceRate > 0.6.
BelowLow(r) == 10 * r.num < r.den
AboveHigh(r) == 10 * r.num > 6 * r.den

\* ------------------------------------------------------------- inputs

\* The log-targets a sampler is constructed with: a flat one, one falling
\* by 1 per point, one with all its mass at point 0, one that is -inf
\* everywhere, and one that cannot be evaluated at the last point.
LogTargets ==
    { [x \in States |-> Fin(0)],
      [x \in States |-> Fin(-x)],
      [x \in States |-> IF x = 0 THEN Fin(0) ELSE NegInf],
      [x \in States |-> NegInf],
      [x \in States |-> IF x = MaxState THEN Raises ELSE Fin(-x)] }

RECURSIVE SeqsUpTo(_, _)
SeqsUpTo(S, n) ==
    IF n = 0 THEN {<<>>}
    ELSE LET shorter == SeqsUpTo(S, n - 1)
         IN shorter \cup {Append(q, x) : q \in {r \in shorter : Len(r) = n - 1}, x \in S}

BlockLists == SeqsUpTo(BlockLens, MaxBlocks)
SampleCounts == 0..MaxSample

RECURSIVE IterationsOf(_)
\* The iterations range(blockLength) runs over all the blocks of a list.
IterationsOf(bl) ==
    IF bl = <<>> THEN 0
    ELSE (IF Head(bl) > 0 THEN Head(bl) ELSE 0) + IterationsOf(Tail(bl))

\* -------------------------------------------------------------- state

VARIABLES
    logTarget,       \* self.logTarget: State -> log-density
    currentState,    \* self.currentState
    stepSize,        \* self.stepSize
    samples,         \* self.samples, the history
    acceptanceRate,  \* self.acceptanceRate
    pc,              \* where the running call stands; "idle" between calls
    blockLengths,    \* adapt's argument
    blockIdx,        \* how many blocks the for loop of adapt has taken
    blockLength,     \* adapt's loop variable
    accepts,         \* adapt's local
    i,               \* the inner loop variable of adapt, and sample's
    rate,            \* adapt's local acceptanceRate
    nSamples,        \* sample's argument
    scale,           \* the scale the last proposal was drawn with
    proposal,        \* the local proposal: the last value drawn
    u,               \* the uniform draw of the last __accept of the call
    accepted,        \* what the last __accept of the call returned
    call,            \* the running call, or else the last one, and its argument
    entry,           \* the fields as that call found them
    outcome,         \* how that call ended, "running" until it has
    summary,         \* what summary() returned, while the caller holds it
    iters            \* accept/reject iterations completed so far

fields == <<logTarget, currentState, stepSize, samples, acceptanceRate>>
frame == <<blockLengths, blockIdx, blockLength, accepts, i, rate, nSamples,
           scale, proposal, u, accepted>>
vars == <<logTarget, currentState, stepSize, samples, acceptanceRate, pc,
          blockLengths, blockIdx, blockLength, accepts, i, rate, nSamples,
          scale, proposal, u, accepted, call, entry, outcome, summary, iters>>

Snapshot == [stepSize |-> stepSize, samples |-> samples,
             currentState |-> currentState, acceptanceRate |-> acceptanceRate]

NoCall == [op |-> "none", bl |-> <<>>, n |-> 0]
AdaptOf(bl) == [op |-> "adapt", bl |-> bl, n |-> 0]
SampleOf(n) == [op |-> "sample", bl |-> <<>>, n |-> n]
SummaryOf == [op |-> "summary", bl |-> <<>>, n |-> 0]

NoSummary == [mean |-> None, c025 |-> None, c975 |-> None]

\* Metropolis.__init__
Construct(lt, s0) ==
    /\ logTarget = lt
    /\ currentState = s0
    /\ stepSize = Pow2(0)
    /\ samples = <<s0>>
    /\ acceptanceRate = None
    /\ pc = "idle"
    /\ blockLengths = <<>> /\ blockIdx = 0 /\ blockLength = 0 /\ accepts = 0
    /\ i = 0 /\ rate = None /\ nSamples = 0
    /\ scale = StepZero /\ proposal = 0 /\ u = 0 /\ accepted = FALSE
    /\ summary = NoSummary
    /\ call = NoCall
    /\ entry = [stepSize |-> Pow2(0), samples |-> <<s0>>,
                currentState |-> s0, acceptanceRate |-> None]
    /\ outcome = "constructed"
    /\ iters = 0

Init == \E lt \in LogTargets, s0 \in States : Construct(lt, s0)

\* The frame of a call is gone once it has returned or raised.
DropFrame ==
    /\ blockLengths' = <<>> /\ blockIdx' = 0 /\ blockLength' = 0 /\ accepts' = 0
    /\ i' = 0 /\ rate' = None /\ nSamples' = 0
    /\ scale' = StepZero /\ proposal' = 0 /\ u' = 0 /\ accepted' = FALSE

\* An exception leaves the call; the object stays as it is.
Raise(err) ==
    /\ pc' = "idle"
    /\ outcome' = err
    /\ DropFrame
    /\ UNCHANGED <<fields, call, entry, summary, iters>>

\* ----------------------------------------------------------- __accept

TargetRaises(p) == logTarget[p].k = "raise" \/ logTarget[currentState].k = "raise"

LogRatio(p) == FSub(logTarget[p], logTarget[currentState])

\* np.log(np.random.uniform()) < logRatio
Accepts(p, d) == FLess(NpLog(d), LogRatio(p))

\* Accept with nothing appended on a rejection.
Accept_NoAppendOnReject(p, d) ==
    IF Accepts(p, d)
    THEN /\ currentState' = p
         /\ samples' = Append(samples, p)
         /\ accepted' = TRUE
    ELSE /\ currentState' = currentState
         /\ samples' = samples
         /\ accepted' = FALSE

\* Accept with the rejected proposal appended.
Accept_RejectAppendsProposal(p, d) ==
    IF Accepts(p, d)
    THEN /\ currentState' = p
         /\ samples' = Append(samples, p)
         /\ accepted' = TRUE
    ELSE /\ currentState' = currentState
         /\ samples' = Append(samples, p)
         /\ accepted' = FALSE

\* Accept with the state left behind appended on an acceptance.
Accept_AcceptAppendsOld(p, d) ==
    IF Accepts(p, d)
    THEN /\ currentState' = p
         /\ samples' = Append(samples, currentState)
         /\ accepted' = TRUE
    ELSE /\ currentState' = currentState
         /\ samples' = Append(samples, currentState)
         /\ accepted' = FALSE

\* The two branches of __accept, once logRatio is known.
Accept(p, d) ==
    IF Accepts(p, d)
    THEN /\ currentState' = p
         /\ samples' = Append(samples, p)
         /\ accepted' = TRUE
    ELSE /\ currentState' = currentState
         /\ samples' = Append(samples, currentState)
         /\ accepted' = FALSE

BoolInt(b) == IF b THEN 1 ELSE 0

\* LoopBody with a failed evaluation of the log-target counted as a
\* rejection instead of being raised.
LoopBody_SwallowsTargetError(counting) ==
    IF NormalRaises(stepSize) THEN Raise("ValueError")
    ELSE \E p \in NormalDraws(currentState, stepSize) :
           /\ scale' = stepSize
           /\ proposal' = p
           /\ IF TargetRaises(p)
              THEN /\ samples' = Append(samples, currentState)
                   /\ accepted' = FALSE
                   /\ UNCHANGED <<currentState, u>>
              ELSE \E d \in UniformDraws : u' = d /\ Accept(p, d)
           /\ accepts' = IF counting THEN accepts + BoolInt(accepted') ELSE accepts
           /\ i' = i + 1
           /\ iters' = iters + 1
           /\ UNCHANGED <<logTarget, stepSize, acceptanceRate, pc,
                          blockLengths, blockIdx, blockLength, rate,
                          nSamples, call, entry, outcome, summary>>

\* The body of both loops: draw a proposal, then __accept(proposal).
\* adapt adds what __accept returns to accepts; sample drops it.
LoopBody(counting) ==
    IF NormalRaises(stepSize) THEN Raise("ValueError")
    ELSE \E p \in NormalDraws(currentState, stepSize) :
           IF TargetRaises(p) THEN Raise("TargetError")
           ELSE \E d \in UniformDraws :
                  /\ scale' = stepSize
                  /\ proposal' = p
                  /\ u' = d
                  /\ Accept(p, d)
                  /\ accepts' = IF counting THEN accepts + BoolInt(accepted') ELSE accepts
                  /\ i' = i + 1
                  /\ iters' = iters + 1
                  /\ UNCHANGED <<logTarget, stepSize, acceptanceRate, pc,
                                 blockLengths, blockIdx, blockLength, rate,
                                 nSamples, call, entry, outcome, summary>>

\* -------------------------------------------------------------- adapt

\* stepSize after a block whose acceptance rate is r.
Rescale(s, r) ==
    IF BelowLow(r) THEN Halve(s)
    ELSE IF AboveHigh(r) THEN Double(s)
    ELSE s

AdaptCall(bl) ==
    /\ pc = "idle"
    /\ pc' = "adapt_for"
    /\ blockLengths' = bl
    /\ blockIdx' = 0
    /\ rate' = Rat(0, 1)
    /\ call' = AdaptOf(bl)
    /\ entry' = Snapshot
    /\ outcome' = "running"
    /\ summary' = NoSummary
    /\ UNCHANGED <<fields, blockLength, accepts, i, nSamples, scale, proposal,
                   u, accepted, iters>>

\* for blockLength in blockLengths: accepts = 0
AdaptNextBlock ==
    /\ pc = "adapt_for"
    /\ blockIdx < Len(blockLengths)
    /\ blockIdx' = blockIdx + 1
    /\ blockLength' = blockLengths[blockIdx + 1]
    /\ accepts' = 0
    /\ i' = 0
    /\ pc' = "adapt_inner"
    /\ UNCHANGED <<fields, blockLengths, rate, nSamples, scale, proposal,
                   u, accepted, call, entry, outcome, summary, iters>>

\* One pass of the inner loop.
AdaptIterate ==
    /\ pc = "adapt_inner"
    /\ i < blockLength
    /\ LoopBody(TRUE)

\* After the inner loop: the block's rate, and the rescaling it causes.
AdaptEndBlock ==
    /\ pc = "adapt_inner"
    /\ ~(i < blockLength)
    /\ IF blockLength = 0 THEN Raise("ZeroDivisionError")
       ELSE /\ rate' = Rat(accepts, blockLength)
            /\ stepSize' = Rescale(stepSize, rate')
            /\ pc' = "adapt_for"
            /\ UNCHANGED <<logTarget, currentState, samples, acceptanceRate,
                           blockLengths, blockIdx, blockLength, accepts, i,
                           nSamples, scale, proposal, u, accepted, call, entry,
                           outcome, summary, iters>>

\* AdaptReturn with the rescaling done once more, after the loop over the blocks.
AdaptReturn_RescalesAfterLoop ==
    /\ pc = "adapt_for"
    /\ ~(blockIdx < Len(blockLengths))
    /\ stepSize' = Rescale(stepSize, rate)
    /\ acceptanceRate' = rate
    /\ pc' = "idle"
    /\ outcome' = "returned"
    /\ DropFrame
    /\ UNCHANGED <<logTarget, currentState, samples, call, entry, summary, iters>>

\* AdaptReturn with a rate that an earlier call has set left in place.
AdaptReturn_KeepsEarlierRate ==
    /\ pc = "adapt_for"
    /\ ~(blockIdx < Len(blockLengths))
    /\ acceptanceRate' = IF acceptanceRate.none THEN rate ELSE acceptanceRate
    /\ pc' = "idle"
    /\ outcome' = "returned"
    /\ DropFrame
    /\ UNCHANGED <<logTarget, currentState, stepSize, samples, call, entry,
                   summary, iters>>

\* self.acceptanceRate = acceptanceRate; return self
AdaptReturn ==
    /\ pc = "adapt_for"
    /\ ~(blockIdx < Len(blockLengths))
    /\ acceptanceRate' = rate
    /\ pc' = "idle"
    /\ outcome' = "returned"
    /\ DropFrame
    /\ UNCHANGED <<logTarget, currentState, stepSize, samples, call, entry,
                   summary, iters>>

\* ------------------------------------------------------------- sample

SampleCall(n) ==
    /\ pc = "idle"
    /\ pc' = "sample_for"
    /\ nSamples' = n
    /\ i' = 0
    /\ call' = SampleOf(n)
    /\ entry' = Snapshot
    /\ outcome' = "running"
    /\ summary' = NoSummary
    /\ UNCHANGED <<fields, blockLengths, blockIdx, blockLength, accepts, rate,
                   scale, proposal, u, accepted, iters>>

SampleIterate ==
    /\ pc = "sample_for"
    /\ i < nSamples
    /\ LoopBody(FALSE)

\* SampleReturn with stepSize halved, as after a block that accepted nothing.
SampleReturn_Halves ==
    /\ pc = "sample_for"
    /\ ~(i < nSamples)
    /\ stepSize' = Halve(stepSize)
    /\ pc' = "idle"
    /\ outcome' = "returned"
    /\ DropFrame
    /\ UNCHANGED <<logTarget, currentState, samples, acceptanceRate, call, entry,
                   summary, iters>>

SampleReturn ==
    /\ pc = "sample_for"
    /\ ~(i < nSamples)
    /\ pc' = "idle"
    /\ outcome' = "returned"
    /\ DropFrame
    /\ UNCHANGED <<fields, call, entry, summary, iters>>

\* ------------------------------------------------------------ summary

RECURSIVE Sum(_)
Sum(q) == IF q = <<>> THEN 0 ELSE Head(q) + Sum(Tail(q))

RECURSIVE Insert(_, _)
\* The sorted sequence q with x put in its place.
Insert(x, q) ==
    IF q = <<>> THEN <<x>>
    ELSE IF x <= Head(q) THEN <<x>> \o q
    ELSE <<Head(q)>> \o Insert(x, Tail(q))

RECURSIVE Sorted(_)
Sorted(q) == IF q = <<>> THEN <<>> ELSE Insert(Head(q), Sorted(Tail(q)))

\* np.percentile(q, p40 * 2.5) by linear interpolation between the order
\* statistics around position (n - 1) * p40 / 40, counted from 0.
Percentile(q, p40) ==
    LET a == Sorted(q)
        n == Len(q)
        lo == ((n - 1) * p40) \div 40
        fr == ((n - 1) * p40) % 40
        hi == IF lo + 1 < n THEN lo + 1 ELSE lo
    IN Rat(40 * a[lo + 1] + fr * (a[hi + 1] - a[lo + 1]), 40)

\* Summary with the history sorted where it stands.
Summary_SortsInPlace ==
    /\ pc = "idle"
    /\ call' = SummaryOf
    /\ entry' = Snapshot
    /\ outcome' = "returned"
    /\ samples' = Sorted(samples)
    /\ summary' = [mean |-> Rat(Sum(samples), Len(samples)),
                   c025 |-> Percentile(samples, 1),
                   c975 |-> Percentile(samples, 39)]
    /\ UNCHANGED <<logTarget, currentState, stepSize, acceptanceRate, pc,
                   frame, iters>>

\* Metropolis.summary: it reads the history and returns a new record.
Summary ==
    /\ pc = "idle"
    /\ call' = SummaryOf
    /\ entry' = Snapshot
    /\ outcome' = "returned"
    /\ summary' = [mean |-> Rat(Sum(samples), Len(samples)),
                   c025 |-> Percentile(samples, 1),
                   c975 |-> Percentile(samples, 39)]
    /\ UNCHANGED <<fields, pc, frame, iters>>

\* ------------------------------------------------------ specifications

\* The calls a caller makes: those that keep the run within the bounds.
StepExpWithin(bl) ==
    stepSize.k = "pos" => /\ stepSize.e - Len(bl) >= -MaxStepExp
                          /\ stepSize.e + Len(bl) <= MaxStepExp

Next ==
    \/ \E bl \in BlockLists :
         /\ iters + IterationsOf(bl) <= MaxIters
         /\ StepExpWithin(bl)
         /\ AdaptCall(bl)
    \/ AdaptNextBlock
    \/ AdaptIterate
    \/ AdaptEndBlock
    \/ AdaptReturn
    \/ \E n \in SampleCounts :
         /\ iters + n <= MaxIters
         /\ SampleCall(n)
    \/ SampleIterate
    \/ SampleReturn
    \/ Summary

Spec == Init /\ [][Next]_vars

\* Tuning only.  The target has all its mass at point 0, where the chain
\* starts: a proposal is accepted when it lands on 0 and rejected when it
\* does not, so a block of length L can end with any count 0..L of accepts.
PointMass == [x \in States |-> IF x = 0 THEN Fin(0) ELSE NegInf]

InitTune == Construct(PointMass, 0)

NextTune ==
    \/ \E bl \in SeqsUpTo(TuneLens, MaxBlocks) :
         /\ iters + IterationsOf(bl) <= MaxTuneIters
         /\ StepExpWithin(bl)
         /\ AdaptCall(bl)
    \/ AdaptNextBlock
    \/ AdaptIterate
    \/ AdaptEndBlock
    \/ AdaptReturn

SpecTune == InitTune /\ [][NextTune]_vars

\* One long adaptation: as many blocks of one iteration as it takes to halve
\* 1.0 down to the least double and once more, on a target that is -inf
\* everywhere, so that every proposal is rejected.
Nowhere == [x \in States |-> NegInf]
DeepList == [k \in 1..(DblMinExp + 1) |-> 1]

InitDeep == Construct(Nowhere, 0)

NextDeep ==
    \/ (outcome = "constructed" /\ AdaptCall(DeepList))
    \/ AdaptNextBlock
    \/ AdaptIterate
    \/ AdaptEndBlock
    \/ AdaptReturn

SpecDeep == InitDeep /\ [][NextDeep]_vars

\* The caller assigns the public attribute stepSize between two calls.
AssignOf == [op |-> "assign", bl |-> <<>>, n |-> 0]
AssignedSteps == {StepZero, [k |-> "neg", e |-> 0], Pow2(0)}

AssignStepSize(v) ==
    /\ pc = "idle"
    /\ stepSize' = v
    /\ call' = AssignOf
    /\ entry' = Snapshot
    /\ outcome' = "returned"
    /\ UNCHANGED <<logTarget, currentState, samples, acceptanceRate, pc, frame,
                   summary, iters>>

NextAssign ==
    \/ \E v \in AssignedSteps : AssignStepSize(v)
    \/ \E bl \in SeqsUpTo({1}, MaxBlocks) :
         /\ iters + IterationsOf(bl) <= MaxIters
         /\ StepExpWithin(bl)
         /\ AdaptCall(bl)
    \/ AdaptNextBlock
    \/ AdaptIterate
    \/ AdaptEndBlock
    \/ AdaptReturn
    \/ \E n \in SampleCounts :
         /\ iters + n <= MaxIters
         /\ SampleCall(n)
    \/ SampleIterate
    \/ SampleReturn

SpecAssign == Init /\ [][NextAssign]_vars

\* Tuning with any integers as block lengths.
AnyLens == {-1, 0, 1}

NextAny ==
    \/ \E bl \in SeqsUpTo(AnyLens, MaxBlocks) :
         /\ iters + IterationsOf(bl) <= MaxIters
         /\ StepExpWithin(bl)
         /\ AdaptCall(bl)
    \/ AdaptNextBlock
    \/ AdaptIterate
    \/ AdaptEndBlock
    \/ AdaptReturn

SpecAny == InitTune /\ [][NextAny]_vars

\* --------------------------------------------------------- properties

InLoop == pc \in {"adapt_inner", "sample_for"}
\* A step that completes one accept/reject iteration.
IterationStep == InLoop /\ i' = i + 1
Last(q) == q[Len(q)]

\* C1: the history holds 1 + (the iterations performed so far) values, and
\* a sample(n) that has returned has made it exactly n longer.
C1_HistoryLength ==
    /\ Len(samples) = 1 + iters
    /\ (call.op = "sample" /\ outcome = "running")
          => Len(samples) = Len(entry.samples) + i
    /\ (call.op = "sample" /\ outcome = "returned")
          => Len(samples) = Len(entry.samples) + call.n

\* sample(2) has returned after an earlier call: its first iteration moved
\* the chain, its second one was rejected.
C1_Witness ==
    /\ call = SampleOf(2) /\ outcome = "returned"
    /\ Len(entry.samples) = 2 /\ Len(samples) = 4
    /\ samples[3] # samples[2]
    /\ samples[4] = samples[3]

\* C2: an iteration that rejects leaves currentState alone and appends it;
\* one that accepts makes the proposal the currentState and appends it.
C2_AcceptReject ==
    [][IterationStep =>
         IF accepted'
         THEN /\ currentState' = proposal'
              /\ samples' = Append(samples, proposal')
         ELSE /\ currentState' = currentState
              /\ samples' = Append(samples, currentState)]_vars

\* A proposal away from the current state has just been rejected, after an
\* earlier one was accepted.
C2_Witness ==
    /\ InLoop /\ i > 0
    /\ ~accepted /\ proposal # currentState
    /\ Len(samples) >= 3
    /\ Last(samples) = currentState
    /\ samples[Len(samples) - 1] = currentState
    /\ samples[Len(samples) - 2] # currentState

\* C3: adapt takes the blocks in the order given; a block of length L > 0
\* runs L iterations, each drawn with the stepSize the previous block left,
\* and then halves stepSize if accepts/L < 0.1, doubles it if
\* accepts/L > 0.6 and leaves it alone otherwise, 0.1 and 0.6 included.
C3_BlockRescale ==
    [][/\ (pc = "adapt_for" /\ pc' = "adapt_inner")
            => /\ blockIdx' = blockIdx + 1
               /\ blockLength' = call.bl[blockIdx']
               /\ stepSize' = stepSize
       /\ (pc = "adapt_inner" /\ pc' = "adapt_inner")
            => /\ scale' = stepSize
               /\ stepSize' = stepSize
       /\ (pc = "adapt_for" /\ pc' = "idle") => blockIdx = Len(call.bl)
       /\ (pc = "adapt_inner" /\ pc' = "adapt_for" /\ blockLength > 0)
            => /\ i = blockLength
               /\ stepSize.k = "pos"
               /\ stepSize' =
                    IF 10 * accepts < blockLength THEN Pow2(stepSize.e - 1)
                    ELSE IF 10 * accepts > 6 * blockLength THEN Pow2(stepSize.e + 1)
                    ELSE stepSize]_vars

\* adapt([1, 10]): the first block accepted nothing and halved stepSize, the
\* second accepted 1 of 10, a rate of exactly 0.1, and left it halved.
C3_Witness ==
    /\ pc = "adapt_for" /\ call = AdaptOf(<<1, 10>>) /\ blockIdx = 2
    /\ blockLength = 10 /\ accepts = 1
    /\ entry.stepSize = Pow2(0)
    /\ stepSize = Pow2(-1)

\* C4: adapt([]) on a sampler whose acceptanceRate is unset leaves it unset.
C4_EmptyAdaptLeavesRateUnset ==
    (call = AdaptOf(<<>>) /\ outcome = "returned" /\ entry.acceptanceRate = None)
        => acceptanceRate = None

\* C5: adapt([]) leaves stepSize, the history and currentState as they were.
C5_EmptyAdaptNoOp ==
    (call = AdaptOf(<<>>) /\ outcome = "returned")
        => /\ stepSize = entry.stepSize
           /\ samples = entry.samples
           /\ currentState = entry.currentState

\* adapt([]) has returned on a sampler that earlier calls had moved and
\* rescaled.
C5_Witness ==
    /\ call = AdaptOf(<<>>) /\ outcome = "returned"
    /\ Len(samples) > 1
    /\ stepSize # Pow2(0)
    /\ currentState # samples[1]

\* C6: an adapt that fails on a block of length zero has changed neither
\* the history nor stepSize.
C6_ZeroBlockNoPartialMutation ==
    outcome = "ZeroDivisionError"
        => /\ samples = entry.samples
           /\ stepSize = entry.stepSize

\* C7: when adapt returns from a non-empty list of positive block lengths,
\* acceptanceRate is accepts/L of the last block, a number in [0, 1].
C7_LastBlockRate ==
    [][(/\ pc = "adapt_for" /\ pc' = "idle"
        /\ call.bl # <<>>
        /\ \A k \in 1..Len(call.bl) : call.bl[k] > 0)
         => /\ blockLength = Last(call.bl)
            /\ ~acceptanceRate'.none
            /\ acceptanceRate'.den > 0
            /\ acceptanceRate'.num * blockLength = accepts * acceptanceRate'.den
            /\ 0 <= acceptanceRate'.num
            /\ acceptanceRate'.num <= acceptanceRate'.den]_vars

\* adapt([10]) has returned with 3 of 10 accepted on a sampler whose earlier
\* adapt had left the rate 1.
C7_Witness ==
    /\ pc = "idle" /\ call = AdaptOf(<<10>>) /\ outcome = "returned"
    /\ entry.acceptanceRate = Rat(1, 1)
    /\ acceptanceRate = Rat(3, 10)

\* C8: stepSize is strictly positive, a power of two, in every state.
C8_StepSizePositive == stepSize.k = "pos"

\* C9: with the log-target -inf at the proposal and at the current state the
\* iteration is a rejection whatever the uniform draw, and the only errors
\* an iteration raises are the log-target's and the normal draw's own.
C9_BothNegInfRejects ==
    [][/\ (/\ IterationStep
           /\ logTarget[proposal'].k = "ninf"
           /\ logTarget[currentState].k = "ninf")
            => /\ ~accepted'
               /\ currentState' = currentState
               /\ samples' = Append(samples, currentState)
               /\ pc' = pc
       /\ (/\ InLoop /\ pc' = "idle" /\ outcome' # "returned"
           /\ ~(pc = "adapt_inner" /\ ~(i < blockLength)))
            => \/ NormalRaises(stepSize)
               \/ \E p \in States : logTarget[p].k = "raise"]_vars

\* A proposal of zero density, away from a current state of zero density,
\* has just been rejected.
C9_Witness ==
    /\ InLoop /\ i > 0
    /\ logTarget[proposal].k = "ninf"
    /\ logTarget[currentState].k = "ninf"
    /\ proposal # currentState
    /\ ~accepted
    /\ Last(samples) = currentState

\* C10: an iteration in which the log-target raises ends the call with that
\* error and changes neither the history nor currentState; an iteration
\* that completes has evaluated the log-target at both points.
C10_TargetErrorPropagates ==
    [][/\ (InLoop /\ outcome' = "TargetError")
            => /\ pc' = "idle"
               /\ samples' = samples
               /\ currentState' = currentState
       /\ IterationStep
            => /\ logTarget[proposal'].k # "raise"
               /\ logTarget[currentState].k # "raise"]_vars

\* A call has failed on the log-target after completing an iteration, whose
\* entry is still in the history.
C10_Witness ==
    /\ pc = "idle" /\ outcome = "TargetError"
    /\ Len(samples) = Len(entry.samples) + 1
    /\ currentState = Last(samples)

\* The iterations a call asks for.
Requested == IF call.op = "adapt" THEN IterationsOf(call.bl) ELSE call.n

\* C11: an adapt or sample that finds stepSize zero or negative appends
\* nothing to the history, and fails unless it had no proposal to draw.
C11_StepSizeChecked ==
    (call.op \in {"adapt", "sample"} /\ entry.stepSize.k \in {"zero", "neg"})
        => /\ samples = entry.samples
           /\ outcome = "returned" => Requested = 0

\* C12: sample leaves stepSize and acceptanceRate as it found them and draws
\* every proposal with that stepSize; sample(0) changes no field; summary
\* does not change stepSize either.
C12_SampleNeverAdapts ==
    /\ call.op = "sample"
         => /\ stepSize = entry.stepSize
            /\ acceptanceRate = entry.acceptanceRate
            /\ (pc = "sample_for" /\ i > 0) => scale = entry.stepSize
            /\ (call.n = 0 /\ outcome = "returned")
                 => /\ samples = entry.samples
                    /\ currentState = entry.currentState
    /\ call.op = "summary" => stepSize = entry.stepSize

\* sample(2) has returned on a sampler that an adapt had rescaled.
C12_Witness ==
    /\ call = SampleOf(2) /\ outcome = "returned"
    /\ entry.stepSize # Pow2(0)
    /\ ~entry.acceptanceRate.none
    /\ Len(samples) = Len(entry.samples) + 2
    /\ currentState # entry.currentState

\* C14: every step of adapt, sample and summary leaves the history it found
\* as a prefix of the history it leaves.
C14_AppendOnly ==
    [][/\ Len(samples') >= Len(samples)
       /\ SubSeq(samples', 1, Len(samples)) = samples]_vars

\* summary has returned on a history that is not in ascending order.
C14_Witness ==
    /\ call = SummaryOf /\ outcome = "returned"
    /\ summary # NoSummary
    /\ Len(samples) = 4
    /\ samples[1] > samples[2]
    /\ samples[3] > samples[2]

\* C15: the last entry of the history is currentState.
C15_LastIsCurrent == Last(samples) = currentState

\* An iteration has just moved the chain.
C15_Witness ==
    /\ InLoop /\ i > 0 /\ accepted
    /\ Len(samples) >= 3
    /\ currentState = proposal
    /\ samples[Len(samples) - 1] # proposal

\* C16: a proposal whose log-target is -inf is rejected, and every entry of
\* the history whose log-target is -inf is a copy of the initial state.
C16_NoMoveToZeroDensity ==
    /\ (InLoop /\ i > 0 /\ logTarget[proposal].k = "ninf") => ~accepted
    /\ \A k \in 1..Len(samples) :
         logTarget[samples[k]].k = "ninf" => samples[k] = samples[1]

\* A proposal of zero density has just been rejected from a state of positive
\* density on the uniform draw 0.0, after the chain had left its initial state.
C16_Witness ==
    /\ InLoop /\ i > 0 /\ u = 0
    /\ logTarget[proposal].k = "ninf"
    /\ logTarget[currentState].k = "fin"
    /\ ~accepted
    /\ currentState # samples[1]

\* C17: a proposal whose log-target is finite and not below the finite
\* log-target of the current state is accepted, whatever the uniform draw.
C17_UphillAccepted ==
    [][(/\ IterationStep
        /\ logTarget[proposal'].k = "fin"
        /\ logTarget[currentState].k = "fin"
        /\ logTarget[proposal'].v >= logTarget[currentState].v)
         => /\ accepted'
            /\ currentState' = proposal']_vars

\* A level proposal away from the current state has just been accepted on the
\* uniform draw 0.0.
C17_Witness ==
    /\ InLoop /\ i > 0 /\ u = 0 /\ accepted
    /\ proposal # samples[Len(samples) - 1]
    /\ logTarget[proposal].k = "fin"
    /\ logTarget[proposal] = logTarget[samples[Len(samples) - 1]]

\* C18: a block that changes stepSize has run at least one iteration.
C18_RescaleNeedsIteration ==
    [][(pc = "adapt_inner" /\ pc' = "adapt_for" /\ stepSize' # stepSize)
         => i >= 1]_vars

====
